---- MODULE Spec2Model ----
(***************************************************************************)
(* Offline activity sync of the carbon-footprint tracker: the persisted    *)
(* pending queue and sync status kept in AsyncStorage (syncService.ts),    *)
(* the drain syncPendingActivities, the enqueue queueActivityForSync, the  *)
(* remote writes of activityService.ts with the retry of retryHelper.ts,   *)
(* and the triggers that start drains (connectivity listener, foreground). *)
(* Every await of the source is one step of the process that executes it.  *)
(***************************************************************************)
EXTENDS Integers, Sequences, FiniteSets, TLC

\* ---------------------------------------------------------------- bounds
\* number of operations that reach the persisted queue in one run
MaxOps == 2
\* cold starts after an abrupt termination
MaxBoots == 1
\* largest updatedAt of the activities handed to handleSyncConflict
MaxTime == 4
\* ------------------------------------------------------------- constants
NULL == "null"
NoId == "none"
SyncStatuses == {"synced", "pending", "syncing", "error"}

\* the two callers of syncPendingActivities that run without user action
Drainers == {"listener", "foreground"}
\* every caller of syncPendingActivities: those two and the Sync Now button of
\* ProfileScreen, through the context's syncPendingActivitiesManual
Callers == Drainers \cup {"manual"}
\* the two callers of queueActivityForSync (ActivityContext)
Enqueuers == {"addActivity", "updateActivity"}

TempIds == 1..MaxOps

\* NetInfo states: isConnected and isInternetReachable are true, false or null
\* (the three kinds NetInfo reports: online, link up with reachability not yet
\* known, offline)
NetStates ==
    { [isConnected |-> "true",  isInternetReachable |-> "true"],
      [isConnected |-> "true",  isInternetReachable |-> "null"],
      [isConnected |-> "false", isInternetReachable |-> "false"] }

VARIABLES
    pendingData,     \* value under PENDING_ACTIVITIES_KEY
    syncStatusData,  \* value under SYNC_STATUS_KEY (NULL when never written)
    remoteWritten,   \* temp ids whose remote write (addDoc/updateDoc) was applied
    nextTemp,        \* next temp id (Date.now() + random suffix) not yet persisted
    enqueued,        \* temp ids returned by queueActivityForSync so far
    drain,           \* per drainer: the frame of its syncPendingActivities call
    enq,             \* per enqueuer: the frame of its queueActivityForSync call
    ui,              \* per enqueuer: the frame of its ActivityContext call
    boots,           \* cold starts of the process after an abrupt termination
    probe,           \* the last call of a pure function: its input and its output
    ctx              \* in memory: the reducer state of ActivityProvider and the
                     \* state of ProfileScreen

\* what the steps of syncService leave alone
otherVars == <<ui, boots, probe, ctx>>

vars == <<pendingData, syncStatusData, remoteWritten, nextTemp,
          enqueued, drain, enq, ui, boots, probe, ctx>>

\* ------------------------------------------------------- pure definitions
\* state.isConnected === true && state.isInternetReachable !== false
IsReachable(state) ==
    state.isConnected = "true" /\ state.isInternetReachable # "false"

Absent == [present |-> FALSE, list |-> <<>>]
Stored(list) == [present |-> TRUE, list |-> list]

\* existingData ? JSON.parse(existingData) : []
ParseOrEmpty(data) == IF data.present THEN data.list ELSE <<>>

IdsOf(list) == { list[i].tempId : i \in 1..Len(list) }

\* An AsyncStorage call resolves (TRUE) or rejects (FALSE): quota, corruption, I/O
StorageOutcomes == BOOLEAN

\* getSyncStatus: the stored value; 'synced' when none is stored or the read throws
getSyncStatus(stored, readOk) ==
    IF readOk /\ stored # NULL THEN stored ELSE "synced"

\* getPendingActivityCount: length of the stored queue; 0 when absent or unreadable
getPendingActivityCount(data, readOk) ==
    IF readOk /\ data.present THEN Len(data.list) ELSE 0

\* updateSyncStatus: writes the status; a storage error is logged and swallowed
updateSyncStatus(current, status, writeOk) == IF writeOk THEN status ELSE current

ZeroResult == [success |-> 0, errors |-> 0, errorMessages |-> <<>>]
NoResult == [success |-> -1, errors |-> -1, errorMessages |-> <<>>]

\* attempts: the remote calls this call has issued so far, in order, each with
\* the temp id of its entry and whether it returned (history of the loop)
IdleDrain ==
    [pc |-> "idle", isConnected |-> FALSE, pendingActivities |-> <<>>, idx |-> 0,
     successCount |-> 0, errorCount |-> 0, errorMessages |-> <<>>,
     remainingActivities |-> <<>>, attempts |-> <<>>, result |-> NoResult]

NoPending == [tempId |-> 0, operation |-> "create", activityId |-> NoId]

\* result: 0 while running, the temp id once returned, Thrown when it threw
Thrown == -1
IdleEnq ==
    [pc |-> "idle", pendingActivity |-> NoPending, pendingActivities |-> <<>>,
     result |-> 0]

\* ------------------------------------------------------- retryHelper.ts
\* sample errors: a code and the lower-cased words its message contains
NoError == [code |-> "none", words |-> {}]
ErrorSamples ==
    { [code |-> "unavailable", words |-> {}],
      [code |-> "auth/network-request-failed", words |-> {}],
      [code |-> "auth/invalid-credential", words |-> {}],
      [code |-> "permission-denied", words |-> {}],
      [code |-> "permission-denied", words |-> {"timeout"}],
      [code |-> "not-found", words |-> {}],
      [code |-> "internal", words |-> {}] }

\* error?.code?.startsWith('auth/')
StartsWithAuth(code) ==
    code \in {"auth/network-request-failed", "auth/invalid-credential"}

defaultShouldRetry(error) ==
    IF error.code = "auth/network-request-failed" THEN TRUE
    ELSE IF error.code = "unavailable" THEN TRUE
    ELSE IF "timeout" \in error.words THEN TRUE
    ELSE IF "connection" \in error.words THEN TRUE
    ELSE IF StartsWithAuth(error.code) THEN FALSE
    ELSE IF error.code = "permission-denied" THEN FALSE
    ELSE IF error.code = "not-found" THEN FALSE
    ELSE TRUE

\* what one call of fn() does: resolves, or rejects with an error
Resolves == [ok |-> TRUE, error |-> NoError]
Rejects(error) == [ok |-> FALSE, error |-> error]
AttemptResults == {Resolves} \cup { Rejects(e) : e \in ErrorSamples }
AttemptSeqs(n) == [1..n -> AttemptResults]

\* the for loop of withRetry from attempt on; results[i] is what fn() does the
\* i-th time it is called
RECURSIVE RetryLoop(_, _, _)
RetryLoop(results, maxAttempts, attempt) ==
    IF results[attempt].ok
    THEN [ok |-> TRUE, attempts |-> attempt, error |-> NoError]
    ELSE IF attempt = maxAttempts \/ ~defaultShouldRetry(results[attempt].error)
         THEN [ok |-> FALSE, attempts |-> attempt, error |-> results[attempt].error]
         ELSE RetryLoop(results, maxAttempts, attempt + 1)

\* withRetry: with maxAttempts < 1 the loop body never runs and line 55 throws
\* lastError, still undefined
withRetry(results, maxAttempts) ==
    IF maxAttempts < 1
    THEN [ok |-> FALSE, attempts |-> 0, error |-> NoError]
    ELSE RetryLoop(results, maxAttempts, 1)

\* maxAttempts = 3 when the caller passes none (line 25)
DefaultMaxAttempts == 3

\* ---------------------------------------------------- activityService.ts
\* createActivity: addDoc under withRetry(3), then getDoc under withRetry(2).
\* wrote: a document was added remotely; ok: the call returned (did not throw)
createActivity(addResults, getResults, exists) ==
    LET added == withRetry(addResults, 3) IN
    IF ~added.ok THEN [wrote |-> FALSE, ok |-> FALSE]
    ELSE LET got == withRetry(getResults, 2) IN
         IF ~got.ok THEN [wrote |-> TRUE, ok |-> FALSE]
         ELSE IF ~exists THEN [wrote |-> TRUE, ok |-> FALSE]
         ELSE [wrote |-> TRUE, ok |-> TRUE]

\* updateActivity: updateDoc under withRetry(3), then getDoc under withRetry(2)
updateActivity(updResults, getResults, exists) ==
    LET updated == withRetry(updResults, 3) IN
    IF ~updated.ok THEN [wrote |-> FALSE, ok |-> FALSE]
    ELSE LET got == withRetry(getResults, 2) IN
         IF ~got.ok THEN [wrote |-> TRUE, ok |-> FALSE]
         ELSE IF ~exists THEN [wrote |-> TRUE, ok |-> FALSE]
         ELSE [wrote |-> TRUE, ok |-> TRUE]

\* every way a remote create / update can end, over all attempt outcomes
CreateOutcomes ==
    { createActivity(a, g, x) : a \in AttemptSeqs(3), g \in AttemptSeqs(2), x \in BOOLEAN }
UpdateOutcomes ==
    { updateActivity(a, g, x) : a \in AttemptSeqs(3), g \in AttemptSeqs(2), x \in BOOLEAN }

\* the id of the stand-in of a queued create: its temp id (ActivityContext
\* line 284)
TempName(tempId) == "temp_" \o ToString(tempId)

\* updateDoc on a document that does not exist rejects with 'not-found'; no
\* document of the remote collection has a client-made temp id
MissingDocument == Rejects([code |-> "not-found", words |-> {}])
UpdateOutcomesOf(activityId) ==
    IF \E t \in TempIds : activityId = TempName(t)
    THEN { updateActivity([i \in 1..3 |-> MissingDocument], g, FALSE) : g \in AttemptSeqs(2) }
    ELSE UpdateOutcomes

\* the branch of the drain loop taken for one queue entry (lines 118-128):
\* the possible outcomes of its remote call, or the thrown 'Invalid operation'
Invalid == [wrote |-> FALSE, ok |-> FALSE]
SyncOutcomes(pending) ==
    IF pending.operation = "create" THEN CreateOutcomes
    ELSE IF pending.operation = "update" /\ pending.activityId # NoId
         THEN UpdateOutcomesOf(pending.activityId)
    ELSE {Invalid}

\* the message pushed for a failed entry
FailureMessage(pending) ==
    IF pending.operation = "create" THEN "Failed to sync activity: save activity"
    ELSE IF pending.activityId # NoId THEN "Failed to sync activity: update activity"
    ELSE "Failed to sync activity: Invalid operation or missing activity ID"

\* the frame of a call of ActivityContext.addActivity / updateActivity.
\* outcome: "none" while it runs, then "saved" (written remotely), "queued"
\* (buffered, shown as unsynced), "rejected" (the activity to update is not in
\* the list) or "thrown" (a failed remote or storage call: SET_ERROR, rethrow)
\* id: the activity an update is for
IdleUi ==
    [pc |-> "idle", isConnected |-> FALSE, wrote |-> FALSE, tempId |-> 0,
     outcome |-> "none", id |-> NoId]

\* the reducer's initial state (ActivityContext lines 195-202).
\* activities: the ids of the records of state.activities that are local and
\* unsynced (stand-ins built by addActivity / updateActivity while offline);
\* the records that came from the remote store are not kept here.
\* pendingCount, syncing: useState of ProfileScreen (lines 47-48); alert: the
\* last Alert.alert it raised
InitCtx ==
    [activities |-> {}, syncStatus |-> "synced", pendingCount |-> 0,
     syncing |-> FALSE, alert |-> "none"]


\* no pure function has been called yet
NoProbe == [fn |-> "none"]

\* ------------------------------------------------------------------ Init
Init ==
    /\ pendingData = Absent
    /\ syncStatusData = NULL
    /\ remoteWritten = {}
    /\ nextTemp = 1
    /\ enqueued = {}
    /\ drain = [d \in Callers |-> IdleDrain]
    /\ enq = [e \in Enqueuers |-> IdleEnq]
    /\ ui = [e \in Enqueuers |-> IdleUi]
    /\ boots = 0
    /\ probe = NoProbe
    /\ ctx = InitCtx

\* ------------------------------------------------------------ environment
\* A call that reached its return resumes its caller as a microtask, before the
\* event loop runs any other callback: nothing else steps while a return is due
Settled ==
    /\ \A d \in Callers : drain[d].pc # "done"
    /\ \A e \in Enqueuers : enq[e].pc # "done"

\* mutant: reachability that is not yet known counts as offline
checkConnectivityStrict(state, fetchOk) ==
    fetchOk /\ state.isConnected = "true" /\ state.isInternetReachable = "true"

\* checkConnectivity: NetInfo.fetch may throw, which counts as offline
checkConnectivity(state, fetchOk) == fetchOk /\ IsReachable(state)

\* what a call of checkConnectivity can answer
ConnectivityResults ==
    { checkConnectivity(state, fetchOk) : state \in NetStates, fetchOk \in BOOLEAN }

\* a frame at its return statement, with the value it returns
Returned(f, result) == [f EXCEPT !.pc = "done", !.result = result]

\* a frame in the outer catch: the locals of the try block are out of scope
\* (the history of the remote calls it issued stays)
Caught(f) ==
    [IdleDrain EXCEPT !.pc = "catch", !.isConnected = f.isConnected,
                      !.attempts = f.attempts]

\* mutant: the call goes on to write 'syncing' whatever the check answered
DrainCheckIgnoresOffline(d) ==
    /\ drain[d].pc = "idle"
    /\ \E isConnected \in ConnectivityResults :
         drain' = [drain EXCEPT ![d] =
                     [IdleDrain EXCEPT !.pc = "setSyncing",
                                       !.isConnected = isConnected]]

\* lines 77-83: a call of syncPendingActivities and its connectivity check, which
\* touches no state of the program: the drain is skipped when offline
DrainCheck(d) ==
    /\ drain[d].pc = "idle"
    /\ \E isConnected \in ConnectivityResults :
         drain' = [drain EXCEPT ![d] =
                     IF ~isConnected
                     THEN Returned(IdleDrain, ZeroResult)
                     ELSE [IdleDrain EXCEPT !.pc = "setSyncing", !.isConnected = TRUE]]

\* mutant: the listener only reports the change and starts no drain
ConnectivityChangeNoSync(state) ==
    /\ Settled
    /\ UNCHANGED vars

\* setupConnectivityListener: NetInfo reports a change; when the new state is
\* online the listener starts a drain without awaiting it
ConnectivityChange(state) ==
    /\ Settled
    /\ IF IsReachable(state) THEN DrainCheck("listener") ELSE UNCHANGED drain
    /\ UNCHANGED <<pendingData, syncStatusData, remoteWritten, nextTemp, enqueued, enq,
                   otherVars>>

\* AppContent.handleAppStateChange: the app returns to the foreground
AppForeground ==
    /\ Settled
    /\ DrainCheck("foreground")
    /\ UNCHANGED <<pendingData, syncStatusData, remoteWritten, nextTemp, enqueued, enq,
                   otherVars>>

\* ------------------------------------------------- syncPendingActivities
\* line 86
DrainSetSyncing(d) ==
    /\ Settled
    /\ drain[d].pc = "setSyncing"
    /\ \E writeOk \in StorageOutcomes :
         syncStatusData' = updateSyncStatus(syncStatusData, "syncing", writeOk)
    /\ drain' = [drain EXCEPT ![d].pc = "read"]
    /\ UNCHANGED <<pendingData, remoteWritten, nextTemp, enqueued, enq,
                   otherVars>>

\* lines 89-107: read and parse the queue; a throwing read goes to the catch
DrainRead(d) ==
    /\ Settled
    /\ drain[d].pc = "read"
    /\ \E readOk \in StorageOutcomes :
         drain' = [drain EXCEPT ![d] =
           IF ~readOk THEN Caught(@)
           ELSE IF ~pendingData.present \/ Len(pendingData.list) = 0
                THEN [@ EXCEPT !.pc = "emptySynced"]
                ELSE [@ EXCEPT !.pc = "loop", !.pendingActivities = pendingData.list,
                               !.idx = 1]]
    /\ UNCHANGED <<pendingData, syncStatusData, remoteWritten, nextTemp,
                   enqueued, enq,
                   otherVars>>

\* lines 91-92 and 98-99: nothing to sync
DrainEmptySynced(d) ==
    /\ Settled
    /\ drain[d].pc = "emptySynced"
    /\ \E writeOk \in StorageOutcomes :
         syncStatusData' = updateSyncStatus(syncStatusData, "synced", writeOk)
    /\ drain' = [drain EXCEPT ![d] = Returned(@, ZeroResult)]
    /\ UNCHANGED <<pendingData, remoteWritten, nextTemp, enqueued, enq,
                   otherVars>>

\* mutant: the loop walks the snapshot from its end
CurrentFromEnd(f) == f.pendingActivities[Len(f.pendingActivities) - f.idx + 1]

\* the loop variable: `for (const pending of pendingActivities)` (line 110)
Current(f) == f.pendingActivities[f.idx]

\* the frame after one iteration of the loop (lines 110-137) on entry idx
AfterIteration(f, outcome) ==
    LET pending == Current(f)
        next == IF f.idx = Len(f.pendingActivities) THEN "writeback" ELSE "loop"
        tried == Append(f.attempts, [tempId |-> pending.tempId, ok |-> outcome.ok])
    IN IF outcome.ok
       THEN [f EXCEPT !.successCount = @ + 1, !.idx = @ + 1, !.pc = next,
                      !.attempts = tried]
       ELSE [f EXCEPT !.errorCount = @ + 1,
                      !.errorMessages = Append(@, FailureMessage(pending)),
                      !.remainingActivities = Append(@, pending),
                      !.idx = @ + 1, !.pc = next, !.attempts = tried]

\* one iteration: the remote call for the entry ends in one of its outcomes
DrainProcess(d) ==
    /\ Settled
    /\ drain[d].pc = "loop"
    /\ LET pending == Current(drain[d]) IN
       \E outcome \in SyncOutcomes(pending) :
         /\ remoteWritten' = IF outcome.wrote
                             THEN remoteWritten \cup {pending.tempId}
                             ELSE remoteWritten
         /\ drain' = [drain EXCEPT ![d] = AfterIteration(@, outcome)]
    /\ UNCHANGED <<pendingData, syncStatusData, nextTemp, enqueued, enq,
                   otherVars>>

\* mutant: the rewrite removes the key whatever failed
WrittenBackClearsQueue(f) == Absent

\* the value written back to PENDING_ACTIVITIES_KEY (lines 140-146)
WrittenBack(f) ==
    IF Len(f.remainingActivities) > 0 THEN Stored(f.remainingActivities) ELSE Absent

\* lines 140-141 / 144: rewrite the queue; a throwing write goes to the catch
DrainWriteBack(d) ==
    /\ Settled
    /\ drain[d].pc = "writeback"
    /\ \E writeOk \in StorageOutcomes :
         IF ~writeOk
         THEN /\ drain' = [drain EXCEPT ![d] = Caught(@)]
              /\ UNCHANGED pendingData
         ELSE /\ pendingData' = WrittenBack(drain[d])
              /\ drain' = [drain EXCEPT ![d].pc =
                             IF Len(drain[d].remainingActivities) > 0
                             THEN "setError" ELSE "setSynced"]
    /\ UNCHANGED <<syncStatusData, remoteWritten, nextTemp, enqueued, enq,
                   otherVars>>

\* lines 142 / 145 and 148-149: final status, then return the tally
DrainFinish(d) ==
    /\ Settled
    /\ drain[d].pc \in {"setError", "setSynced"}
    /\ \E writeOk \in StorageOutcomes :
         syncStatusData' = updateSyncStatus(syncStatusData,
                              IF drain[d].pc = "setError" THEN "error" ELSE "synced",
                              writeOk)
    /\ drain' = [drain EXCEPT ![d] =
                   Returned(@, [success |-> drain[d].successCount,
                                errors |-> drain[d].errorCount,
                                errorMessages |-> drain[d].errorMessages])]
    /\ UNCHANGED <<pendingData, remoteWritten, nextTemp, enqueued, enq,
                   otherVars>>

\* lines 150-158: the outer catch
DrainCatch(d) ==
    /\ Settled
    /\ drain[d].pc = "catch"
    /\ \E writeOk \in StorageOutcomes :
         syncStatusData' = updateSyncStatus(syncStatusData, "error", writeOk)
    /\ drain' = [drain EXCEPT ![d] =
                   Returned(@, [success |-> 0, errors |-> 1,
                                errorMessages |-> <<"Sync failed">>])]
    /\ UNCHANGED <<pendingData, remoteWritten, nextTemp, enqueued, enq,
                   otherVars>>

\* the awaiting caller resumes with the result; the frame is gone
DrainReturn(d) ==
    /\ drain[d].pc = "done"
    /\ drain' = [drain EXCEPT ![d] = IdleDrain]
    /\ UNCHANGED <<pendingData, syncStatusData, remoteWritten, nextTemp,
                   enqueued, enq,
                   otherVars>>

\* -------------------------------------------------- queueActivityForSync
\* mutant: updateActivity leaves out the id of the activity it updates
CallArgsNoId(e) ==
    IF e = "addActivity" THEN [operation |-> "create", activityId |-> NoId]
    ELSE [operation |-> "update", activityId |-> NoId]

\* the arguments each caller passes (ActivityContext lines 279 and 329)
CallArgs(e) ==
    IF e = "addActivity" THEN [operation |-> "create", activityId |-> NoId]
    ELSE [operation |-> "update", activityId |-> ui[e].id]

\* the entry built by a call (lines 37-45)
NewPending(e, tempId) ==
    [tempId |-> tempId, operation |-> CallArgs(e).operation,
     activityId |-> CallArgs(e).activityId]

\* line 37: Date.now() and the random suffix give an id no other entry has:
\* the least id that is neither persisted nor held by a call in flight
HeldTemps ==
    { enq[e].pendingActivity.tempId :
        e \in { x \in Enqueuers : enq[x].pc \in {"write", "setPending"} } }
FreshTemp ==
    CHOOSE t \in nextTemp..(nextTemp + Cardinality(Enqueuers)) :
        t \notin HeldTemps /\ \A u \in nextTemp..(t - 1) : u \in HeldTemps

\* lines 37-52: build the entry with a fresh temp id, read the stored queue and
\* push the entry; a throwing read makes the call throw
EnqueueCall(e) ==
    /\ Settled
    /\ enq[e].pc = "idle"
    /\ FreshTemp <= MaxOps
    /\ \E readOk \in StorageOutcomes :
         enq' = [enq EXCEPT ![e] =
                   IF ~readOk
                   THEN [IdleEnq EXCEPT !.pc = "done", !.result = Thrown,
                                        !.pendingActivity = NewPending(e, FreshTemp)]
                   ELSE [IdleEnq EXCEPT
                           !.pc = "write",
                           !.pendingActivity = NewPending(e, FreshTemp),
                           !.pendingActivities =
                              Append(ParseOrEmpty(pendingData), NewPending(e, FreshTemp))]]
    /\ UNCHANGED <<pendingData, syncStatusData, remoteWritten, nextTemp, enqueued,
                   drain,
                   otherVars>>

\* line 55: save the updated queue
EnqueueWrite(e) ==
    /\ Settled
    /\ enq[e].pc = "write"
    /\ \E writeOk \in StorageOutcomes :
         IF ~writeOk
         THEN /\ enq' = [enq EXCEPT ![e].pc = "done", ![e].result = Thrown]
              /\ UNCHANGED <<pendingData, nextTemp>>
         ELSE /\ pendingData' = Stored(enq[e].pendingActivities)
              /\ nextTemp' = IF enq[e].pendingActivity.tempId >= nextTemp
                             THEN enq[e].pendingActivity.tempId + 1 ELSE nextTemp
              /\ enq' = [enq EXCEPT ![e].pc = "setPending"]
    /\ UNCHANGED <<syncStatusData, remoteWritten, enqueued, drain,
                   otherVars>>

\* lines 58-61: status 'pending', then return the temp id
EnqueueFinish(e) ==
    /\ Settled
    /\ enq[e].pc = "setPending"
    /\ \E writeOk \in StorageOutcomes :
         syncStatusData' = updateSyncStatus(syncStatusData, "pending", writeOk)
    /\ enq' = [enq EXCEPT ![e].pc = "done",
                            ![e].result = enq[e].pendingActivity.tempId]
    /\ enqueued' = enqueued \cup {enq[e].pendingActivity.tempId}
    /\ UNCHANGED <<pendingData, remoteWritten, nextTemp, drain,
                   otherVars>>

\* the caller has taken the temp id (or the error); the frame is gone
EnqueueReturn(e) ==
    /\ enq[e].pc = "done"
    /\ enq' = [enq EXCEPT ![e] = IdleEnq]
    /\ UNCHANGED <<pendingData, syncStatusData, remoteWritten, nextTemp,
                   enqueued, drain,
                   otherVars>>

\* ------------------------------------- ActivityContext (add / update)
\* the mutable state of syncService, which the steps of ActivityContext itself
\* leave alone
syncVars == <<pendingData, syncStatusData, remoteWritten, nextTemp, enqueued, drain>>

\* a call of addActivity / updateActivity that reached its end stays visible
\* until React has taken its outcome
UiSettled == \A e \in Enqueuers : ui[e].pc # "done"

\* the ways the direct remote write of a caller can end
DirectOutcomes(e) ==
    IF e = "addActivity" THEN CreateOutcomes ELSE UpdateOutcomesOf(ui[e].id)

\* the activity a call is for: an update names a record of the list, a local
\* stand-in or the record of a remote document ("doc")
Targets(e) == IF e = "addActivity" THEN {NoId} ELSE ctx.activities \cup {"doc"}

\* the frame after the connectivity check (addActivity lines 269-271,
\* updateActivity lines 316-327): online goes to the direct write; offline goes
\* to queueActivityForSync, for an update only when the activity is in the list
AfterCheck(e, isConnected, found) ==
    IF isConnected
    THEN [IdleUi EXCEPT !.pc = "direct", !.isConnected = TRUE]
    ELSE IF e = "updateActivity" /\ ~found
         THEN [IdleUi EXCEPT !.pc = "done", !.outcome = "rejected"]
         ELSE [IdleUi EXCEPT !.pc = "offline"]

\* addActivity lines 259-271 / updateActivity lines 303-327: the call and its
\* connectivity check. The form that submits is disabled while its call is
\* pending (AddActivityScreen `loading`), so the calls do not overlap each other
UiCall(e) ==
    /\ Settled /\ UiSettled
    /\ \A o \in Enqueuers : ui[o].pc = "idle"
    /\ \E isConnected \in ConnectivityResults, listed \in BOOLEAN, id \in Targets(e) :
         LET found == id \in ctx.activities \/ (id = "doc" /\ listed)
         IN ui' = [ui EXCEPT ![e] =
                     [AfterCheck(e, isConnected, found) EXCEPT !.id = id]]
    /\ UNCHANGED <<syncVars, enq, boots, probe, ctx>>

\* what the call dispatches at its end (reducer lines 134-153).
\* saved: an online add dispatches nothing for the list, an online update puts
\* the remote record in place of the listed one (UPDATE_ACTIVITY);
\* queued: ADD_ACTIVITY of the stand-in with the temp id, or UPDATE_ACTIVITY of
\* the unsynced copy, then SET_SYNC_STATUS 'pending'; thrown: SET_ERROR only
Dispatched(e, id, outcome) ==
    IF outcome = "saved"
    THEN IF e = "addActivity" THEN ctx
         ELSE [ctx EXCEPT !.activities = @ \ {id}]
    ELSE IF outcome = "queued"
    THEN [ctx EXCEPT !.activities = @ \cup {id}, !.syncStatus = "pending"]
    ELSE ctx

\* the frame after the direct write (addActivity lines 272-276 and 292-296,
\* updateActivity lines 319-321 and 340-344): a failed write is rethrown
AfterDirect(f, outcome) ==
    [f EXCEPT !.pc = "done", !.wrote = outcome.wrote,
              !.outcome = IF outcome.ok THEN "saved" ELSE "thrown"]

\* online branch: createActivity / updateActivity of activityService
UiDirect(e) ==
    /\ Settled /\ UiSettled
    /\ ui[e].pc = "direct"
    /\ \E outcome \in DirectOutcomes(e) :
         /\ ui' = [ui EXCEPT ![e] = AfterDirect(@, outcome)]
         /\ ctx' = Dispatched(e, ui[e].id, IF outcome.ok THEN "saved" ELSE "thrown")
    /\ UNCHANGED <<syncVars, enq, boots, probe>>

\* offline branch (lines 279 / 329): the steps of the awaited queueActivityForSync
UiEnqueueCall(e) == UiSettled /\ ui[e].pc = "offline" /\ EnqueueCall(e)
UiEnqueueWrite(e) == UiSettled /\ EnqueueWrite(e)
UiEnqueueFinish(e) == UiSettled /\ EnqueueFinish(e)

\* mutant: the caller shows the activity as queued although the call threw
AfterEnqueueIgnoresThrow(f, result) ==
    [f EXCEPT !.pc = "done", !.outcome = "queued"]

\* the frame after queueActivityForSync returned or threw (addActivity lines
\* 279-296, updateActivity lines 329-344)
AfterEnqueue(f, result) ==
    IF result = Thrown
    THEN [f EXCEPT !.pc = "done", !.outcome = "thrown"]
    ELSE [f EXCEPT !.pc = "done", !.outcome = "queued", !.tempId = result]

\* queueActivityForSync returns into its caller
UiResume(e) ==
    /\ ui[e].pc = "offline"
    /\ enq[e].pc = "done"
    /\ ui' = [ui EXCEPT ![e] = AfterEnqueue(@, enq[e].result)]
    /\ ctx' = Dispatched(e,
                         IF e = "addActivity" THEN TempName(enq[e].result)
                         ELSE ui[e].id,
                         AfterEnqueue(ui[e], enq[e].result).outcome)
    /\ enq' = [enq EXCEPT ![e] = IdleEnq]
    /\ UNCHANGED <<syncVars, boots, probe>>

\* the call is over
UiReturn(e) ==
    /\ ui[e].pc = "done"
    /\ ui' = [ui EXCEPT ![e] = IdleUi]
    /\ UNCHANGED <<syncVars, enq, boots, probe, ctx>>

\* the subscription callback (lines 229-233) or refreshActivities (lines
\* 387-388): SET_ACTIVITIES puts the records of the remote store in place of
\* the whole list
SetActivities ==
    /\ Settled /\ UiSettled
    /\ ctx' = [ctx EXCEPT !.activities = {}]
    /\ UNCHANGED <<syncVars, enq, ui, boots, probe>>

\* ---------------------------------------------------------- specification
\* the steps of one call of syncPendingActivities
Drain(d) ==
    \/ DrainSetSyncing(d)
    \/ DrainRead(d)
    \/ DrainEmptySynced(d)
    \/ DrainProcess(d)
    \/ DrainWriteBack(d)
    \/ DrainFinish(d)
    \/ DrainCatch(d)

\* the steps of one call of queueActivityForSync
Enqueue(e) ==
    \/ EnqueueCall(e)
    \/ EnqueueWrite(e)
    \/ EnqueueFinish(e)

\* Offline additions (addActivity) interleaved at every await with the drains of
\* both triggers, which may overlap each other
Next ==
    \/ \E state \in NetStates : ConnectivityChange(state)
    \/ AppForeground
    \/ \E d \in Drainers : Drain(d) \/ DrainReturn(d)
    \/ Enqueue("addActivity")
    \/ EnqueueReturn("addActivity")

Spec == Init /\ [][Next]_vars

\* The process is killed and the app cold-starts: every call in flight is gone,
\* what AsyncStorage and the remote store hold is kept
Crash ==
    /\ boots < MaxBoots
    /\ boots' = boots + 1
    /\ drain' = [d \in Callers |-> IdleDrain]
    /\ enq' = [e \in Enqueuers |-> IdleEnq]
    /\ ui' = [e \in Enqueuers |-> IdleUi]
    /\ ctx' = InitCtx
    /\ UNCHANGED <<pendingData, syncStatusData, remoteWritten, nextTemp,
                   enqueued, probe>>

NextCrash ==
    \/ \E state \in NetStates : ConnectivityChange(state)
    \/ AppForeground
    \/ \E d \in Drainers : Drain(d) \/ DrainReturn(d)
    \/ Enqueue("addActivity")
    \/ EnqueueReturn("addActivity")
    \/ Crash

SpecCrash == Init /\ [][NextCrash]_vars

\* Enqueues that overlap neither a drain nor each other; the drains of the two
\* triggers still overlap each other
NoEnqueueInFlight == \A e \in Enqueuers : enq[e].pc = "idle"
NoDrainInFlight == \A d \in Drainers : drain[d].pc = "idle"

SerialConnectivityChange(state) ==
    /\ IsReachable(state) => NoEnqueueInFlight
    /\ ConnectivityChange(state)

SerialAppForeground == NoEnqueueInFlight /\ AppForeground

SerialEnqueueCall(e) == NoDrainInFlight /\ EnqueueCall(e)

NextSerial ==
    \/ \E state \in NetStates : SerialConnectivityChange(state)
    \/ SerialAppForeground
    \/ \E d \in Drainers : Drain(d) \/ DrainReturn(d)
    \/ SerialEnqueueCall("addActivity")
    \/ EnqueueWrite("addActivity")
    \/ EnqueueFinish("addActivity")
    \/ EnqueueReturn("addActivity")

SpecSerial == Init /\ [][NextSerial]_vars

\* the listener and its drain run between the steps of the callers
UiConnectivityChange(state) == UiSettled /\ ConnectivityChange(state)
UiDrain == UiSettled /\ Drain("listener")

\* a call whose update, if it is one, is for the record of a remote document
UiCallRemote(e) == UiCall(e) /\ ui'[e].id \in {NoId, "doc"}

\* The two ActivityContext callers, each awaiting its own remote write or its
\* queueActivityForSync, interleaved with each other and with the drains the
\* connectivity listener starts
NextUI ==
    \/ \E e \in Enqueuers :
          \/ UiCallRemote(e)
          \/ UiDirect(e)
          \/ UiEnqueueCall(e)
          \/ UiEnqueueWrite(e)
          \/ UiEnqueueFinish(e)
          \/ UiResume(e)
          \/ UiReturn(e)
    \/ \E state \in NetStates : UiConnectivityChange(state)
    \/ UiDrain
    \/ DrainReturn("listener")

SpecUI == Init /\ [][NextUI]_vars

\* The same callers with the list of activities in view: an update may be for
\* a local stand-in, and the subscription may replace the list at any time
NextList ==
    \/ \E e \in Enqueuers :
          \/ UiCall(e)
          \/ UiDirect(e)
          \/ UiEnqueueCall(e)
          \/ UiEnqueueWrite(e)
          \/ UiEnqueueFinish(e)
          \/ UiResume(e)
          \/ UiReturn(e)
    \/ \E state \in NetStates : UiConnectivityChange(state)
    \/ UiDrain
    \/ DrainReturn("listener")
    \/ SetActivities

SpecList == Init /\ [][NextList]_vars

\* An offline addActivity and an updateActivity of the context whose calls of
\* queueActivityForSync overlap at their awaits; no drain runs
OverlappingEnqueueCall(e) == UiSettled /\ EnqueueCall(e)
OverlappingEnqueueWrite(e) == UiSettled /\ EnqueueWrite(e)
OverlappingEnqueueFinish(e) == UiSettled /\ EnqueueFinish(e)

NextEnqueue ==
    \/ OverlappingEnqueueCall("addActivity")
    \/ OverlappingEnqueueWrite("addActivity")
    \/ OverlappingEnqueueFinish("addActivity")
    \/ EnqueueReturn("addActivity")
    \/ UiCall("updateActivity")
    \/ UiDirect("updateActivity")
    \/ UiEnqueueCall("updateActivity")
    \/ UiEnqueueWrite("updateActivity")
    \/ UiEnqueueFinish("updateActivity")
    \/ UiResume("updateActivity")
    \/ UiReturn("updateActivity")

SpecEnqueue == Init /\ [][NextEnqueue]_vars

\* ProfileScreen lines 61-70: the pending count shown is polled every 5 seconds
UpdatePendingCount ==
    /\ Settled
    /\ \E readOk \in StorageOutcomes :
         ctx' = [ctx EXCEPT !.pendingCount = getPendingActivityCount(pendingData, readOk)]
    /\ UNCHANGED <<syncVars, enq, ui, boots, probe>>

\* ActivityProvider lines 243-254: the status shown is polled every 5 seconds
UpdateSyncStatus ==
    /\ Settled
    /\ \E readOk \in StorageOutcomes :
         ctx' = [ctx EXCEPT !.syncStatus = getSyncStatus(syncStatusData, readOk)]
    /\ UNCHANGED <<syncVars, enq, ui, boots, probe>>

\* ProfileScreen.handleManualSync lines 154-167, up to the await inside
\* syncPendingActivitiesManual (ActivityContext lines 399-403); isConnected is
\* the flag of the context, the last state the listener reported
HandleManualSync ==
    /\ Settled
    /\ ~ctx.syncing
    /\ \E isConnected \in BOOLEAN :
         IF ~isConnected
         THEN /\ ctx' = [ctx EXCEPT !.alert = "No Connection"]
              /\ UNCHANGED drain
         ELSE IF ctx.pendingCount = 0
         THEN /\ ctx' = [ctx EXCEPT !.alert = "Already Synced"]
              /\ UNCHANGED drain
         ELSE /\ ctx' = [ctx EXCEPT !.syncing = TRUE, !.syncStatus = "syncing",
                                    !.alert = "none"]
              /\ DrainCheck("manual")
    /\ UNCHANGED <<pendingData, syncStatusData, remoteWritten, nextTemp, enqueued,
                   enq, ui, boots, probe>>

\* syncPendingActivitiesManual lines 405-420 resumes with the result and
\* returns normally whatever it is; handleManualSync lines 168-173 then raises
\* its alert. refreshActivities (lines 379-393) may fail, leaving the list
ManualResume ==
    /\ drain["manual"].pc = "done"
    /\ LET result == drain["manual"].result
       IN \E refreshOk \in BOOLEAN :
            ctx' = [ctx EXCEPT
                      !.syncStatus = IF result.errors > 0 THEN "error" ELSE "synced",
                      !.activities = IF result.errors > 0 \/ ~refreshOk THEN @ ELSE {},
                      !.syncing = FALSE,
                      !.alert = "Success"]
    /\ drain' = [drain EXCEPT !["manual"] = IdleDrain]
    /\ UNCHANGED <<pendingData, syncStatusData, remoteWritten, nextTemp, enqueued,
                   enq, ui, boots, probe>>

\* Offline additions and the Sync Now button of ProfileScreen
NextManual ==
    \/ Enqueue("addActivity")
    \/ EnqueueReturn("addActivity")
    \/ UpdatePendingCount
    \/ UpdateSyncStatus
    \/ HandleManualSync
    \/ Drain("manual")
    \/ ManualResume

SpecManual == Init /\ [][NextManual]_vars

\* Scenario A: operations are enqueued while no drain runs, connectivity then
\* turns online for good, and nothing fails: every storage call resolves and
\* every remote write succeeds. AppForeground may add drains of its own.
AutoEnqueueCall(e) == SerialEnqueueCall(e) /\ enq'[e].pc = "write"
AutoEnqueueWrite(e) == EnqueueWrite(e) /\ enq'[e].pc = "setPending"
AutoEnqueueFinish(e) == EnqueueFinish(e) /\ syncStatusData' = "pending"
AutoEnqueue(e) ==
    \/ AutoEnqueueCall(e)
    \/ AutoEnqueueWrite(e)
    \/ AutoEnqueueFinish(e)
    \/ EnqueueReturn(e)

\* the listener reports the device online and the drain's own check agrees
AutoOnline ==
    \E state \in NetStates :
        /\ IsReachable(state)
        /\ SerialConnectivityChange(state)
        /\ drain'["listener"].isConnected

AutoSetSyncing(d) == DrainSetSyncing(d) /\ syncStatusData' = "syncing"
AutoRead(d) == DrainRead(d) /\ drain'[d].pc # "catch"
AutoEmptySynced(d) == DrainEmptySynced(d) /\ syncStatusData' = "synced"
AutoProcess(d) == DrainProcess(d) /\ drain'[d].errorCount = drain[d].errorCount
AutoWriteBack(d) == DrainWriteBack(d) /\ drain'[d].pc # "catch"
AutoFinish(d) ==
    /\ DrainFinish(d)
    /\ syncStatusData' = IF drain[d].pc = "setError" THEN "error" ELSE "synced"
AutoDrain(d) ==
    \/ AutoSetSyncing(d)
    \/ AutoRead(d)
    \/ AutoEmptySynced(d)
    \/ AutoProcess(d)
    \/ AutoWriteBack(d)
    \/ AutoFinish(d)
    \/ DrainReturn(d)

NextAuto ==
    \/ AutoOnline
    \/ SerialAppForeground
    \/ \E d \in Drainers : AutoDrain(d)
    \/ AutoEnqueue("addActivity")

\* Every awaited promise settles, so a call in flight takes its next step once
\* the tasks ahead of it have run (a returning call only delays the others, so
\* the fairness is strong); the platform does report the change to online
SpecAuto ==
    /\ Init /\ [][NextAuto]_vars
    /\ SF_vars(AutoOnline)
    /\ SF_vars(AutoEnqueue("addActivity"))
    /\ \A d \in Drainers : SF_vars(AutoDrain(d))

\* The serial interleavings with every fault possible, where each call of
\* syncPendingActivities in flight takes its next step: every promise it awaits
\* settles (AsyncStorage resolves or rejects, withRetry gives up after its
\* attempts)
SpecFair ==
    /\ Init /\ [][NextSerial]_vars
    /\ \A d \in Drainers : SF_vars(Drain(d) \/ DrainReturn(d))

\* ------------------------------------------------ calls of the pure functions
\* every state NetInfo can report
TriState == {"true", "false", "null"}
AllNetStates == [isConnected : TriState, isInternetReachable : TriState]

\* the local copy of an activity (not yet synced) and the remote one
LocalActivities == [updatedAt : 0..MaxTime, emissionKg : 1..2, synced : {FALSE}]
RemoteActivities == [updatedAt : 0..MaxTime, emissionKg : 1..2, synced : {TRUE}]

\* mutant: a tie keeps the local copy
handleSyncConflictTiesLocal(localActivity, remoteActivity) ==
    IF localActivity.updatedAt >= remoteActivity.updatedAt
    THEN localActivity ELSE remoteActivity

\* handleSyncConflict: keep the local copy only when it is strictly newer
handleSyncConflict(localActivity, remoteActivity) ==
    IF localActivity.updatedAt > remoteActivity.updatedAt
    THEN localActivity ELSE remoteActivity

\* one call per run: the function is applied to inputs drawn from the bounded
\* sets and its result is kept in probe
appVars == <<pendingData, syncStatusData, remoteWritten, nextTemp, enqueued,
             drain, enq, ui, boots, ctx>>

\* the callers pass maxAttempts 3 and 2 (activityService lines 49 and 55)
CallWithRetry ==
    /\ probe = NoProbe
    /\ \E maxAttempts \in 1..DefaultMaxAttempts :
         \E results \in AttemptSeqs(maxAttempts) :
            probe' = [fn |-> "withRetry", results |-> results,
                      maxAttempts |-> maxAttempts,
                      out |-> withRetry(results, maxAttempts)]
    /\ UNCHANGED appVars

CallCreateActivity ==
    /\ probe = NoProbe
    /\ \E a \in AttemptSeqs(3), g \in AttemptSeqs(2), x \in BOOLEAN :
         probe' = [fn |-> "createActivity", write |-> a, read |-> g, exists |-> x,
                   out |-> createActivity(a, g, x)]
    /\ UNCHANGED appVars

CallUpdateActivity ==
    /\ probe = NoProbe
    /\ \E a \in AttemptSeqs(3), g \in AttemptSeqs(2), x \in BOOLEAN :
         probe' = [fn |-> "updateActivity", write |-> a, read |-> g, exists |-> x,
                   out |-> updateActivity(a, g, x)]
    /\ UNCHANGED appVars

CallHandleSyncConflict ==
    /\ probe = NoProbe
    /\ \E localActivity \in LocalActivities, remoteActivity \in RemoteActivities :
         probe' = [fn |-> "handleSyncConflict", localActivity |-> localActivity,
                   remoteActivity |-> remoteActivity,
                   out |-> handleSyncConflict(localActivity, remoteActivity)]
    /\ UNCHANGED appVars

CallCheckConnectivity ==
    /\ probe = NoProbe
    /\ \E state \in AllNetStates, fetchOk \in BOOLEAN :
         probe' = [fn |-> "checkConnectivity", state |-> state, fetchOk |-> fetchOk,
                   out |-> checkConnectivity(state, fetchOk)]
    /\ UNCHANGED appVars

NextCalls ==
    \/ CallWithRetry
    \/ CallCreateActivity
    \/ CallUpdateActivity
    \/ CallHandleSyncConflict
    \/ CallCheckConnectivity

SpecCalls == Init /\ [][NextCalls]_vars

TypeOK ==
    /\ syncStatusData \in SyncStatuses \cup {NULL}
    /\ nextTemp \in 1..(MaxOps + 1)
    /\ enqueued \subseteq TempIds
    /\ remoteWritten \subseteq TempIds
    /\ \A d \in Drainers : drain[d].idx \in 0..(MaxOps + 1)
    /\ boots \in 0..MaxBoots
    /\ \A e \in Enqueuers :
          ui[e].outcome \in {"none", "saved", "queued", "rejected", "thrown"}

\* ------------------------------------------------------------------ claims
QueueIds == IdsOf(ParseOrEmpty(pendingData))
StatusNow == getSyncStatus(syncStatusData, TRUE)
CountNow == getPendingActivityCount(pendingData, TRUE)

\* C1 (no loss, P1): when the enqueues do not overlap a drain (SpecSerial), every
\* operation whose queueActivityForSync returned is in the persisted queue or
\* has been written to the remote store, in every reachable state, whatever the
\* drains' remote writes and storage calls did.
C1_NoLoss == \A t \in enqueued : t \in QueueIds \/ t \in remoteWritten

\* C1 witness: after a drain that failed on one operation and removed another,
\* the removed one is remote and the failed one is still queued.
C1_Witness ==
    \E t1, t2 \in enqueued :
        /\ t1 \notin QueueIds /\ t1 \in remoteWritten
        /\ t2 \in QueueIds /\ t2 \notin remoteWritten
        /\ \E d \in Drainers : drain[d].pc = "done" /\ drain[d].result.success = 1
                               /\ drain[d].result.errors = 1

\* C2 (as claimed): an entry persisted after a drain read its snapshot is still
\* in the persisted queue after that drain has rewritten the queue.
C2_DeferredKept ==
    [][\A d \in Drainers :
         (drain[d].pc = "writeback" /\ drain'[d].pc \in {"setError", "setSynced"})
         => \A t \in QueueIds \ IdsOf(drain[d].pendingActivities) :
               t \in IdsOf(ParseOrEmpty(pendingData'))]_vars

\* C3 (as claimed, single-flight P6): while one call of syncPendingActivities
\* is in flight, no other call iterates over the queue or rewrites it: the
\* second call returns at once with zero counts.
InFlight(d) == drain[d].pc \notin {"idle", "done"}
C3_SingleFlight ==
    \A d1, d2 \in Drainers :
        (d1 # d2 /\ InFlight(d1)) => drain[d2].pc \notin {"loop", "writeback"}

\* C4 (as claimed): whenever a call of syncPendingActivities that found the
\* device online returns errors = 0, the persisted status is 'synced' and
\* getPendingActivityCount() is 0.
C4_CleanDrainSynced ==
    \A d \in Drainers :
        (drain[d].pc = "done" /\ drain[d].isConnected /\ drain[d].result.errors = 0)
        => (StatusNow = "synced" /\ CountNow = 0)

\* C5 (as claimed): whenever a call of syncPendingActivities returns errors > 0,
\* the persisted status is 'error' and getPendingActivityCount() equals the
\* returned errors, also when the failure was the read or rewrite of the queue.
C5_FailedDrainError ==
    \A d \in Drainers :
        (drain[d].pc = "done" /\ drain[d].result.errors > 0)
        => (StatusNow = "error" /\ CountNow = drain[d].result.errors)

\* C6 (as claimed): at the moment a call of queueActivityForSync returns a temp
\* id, the persisted status is not 'synced'.
C6_EnqueueNotSynced ==
    \A e \in Enqueuers :
        (enq[e].pc = "done" /\ enq[e].result # Thrown) => StatusNow # "synced"

\* C7 (offline skip, P5): a call of syncPendingActivities whose connectivity
\* check answers false returns {success: 0, errors: 0, errorMessages: []} in
\* that very step, has issued no remote call, and neither that step nor its
\* return changes the persisted queue, the persisted status or the remote
\* store; only a call whose check answered true goes on to write 'syncing'.
StoreUntouched ==
    /\ pendingData' = pendingData
    /\ syncStatusData' = syncStatusData
    /\ remoteWritten' = remoteWritten
C7_OfflineSkip ==
    [][\A d \in Drainers :
         /\ (drain[d].pc = "idle" /\ drain'[d].pc # "idle")
            => IF drain'[d].isConnected
               THEN drain'[d].pc = "setSyncing"
               ELSE /\ drain'[d].pc = "done"
                    /\ drain'[d].result = ZeroResult
                    /\ drain'[d].attempts = <<>>
                    /\ StoreUntouched
         /\ (drain[d].pc = "done" /\ ~drain[d].isConnected /\ drain'[d].pc = "idle")
            => StoreUntouched]_vars

\* C7 witness: an offline call returns zero counts while an operation is queued
\* and the status is 'pending'.
C7_Witness ==
    \E d \in Drainers :
        /\ drain[d].pc = "done" /\ ~drain[d].isConnected
        /\ drain[d].result = ZeroResult
        /\ CountNow = 1 /\ StatusNow = "pending" /\ remoteWritten = {}

\* C8 (FIFO, P3): the persisted queue and every snapshot list the operations
\* in the order they were enqueued (ascending temp id), and the remote calls a
\* drain has issued so far are, in order, those of the first entries of its
\* snapshot, each one ended (returned or failed) before the next was issued.
Ascending(list) ==
    \A i, j \in 1..Len(list) : i < j => list[i].tempId < list[j].tempId
C8_FIFO ==
    /\ Ascending(ParseOrEmpty(pendingData))
    /\ \A d \in Drainers :
         LET f == drain[d] IN
         /\ Ascending(f.attempts)
         /\ f.pc \in {"loop", "writeback", "setError", "setSynced"}
            => /\ Ascending(f.pendingActivities)
               /\ Len(f.attempts) = f.idx - 1
               /\ \A i \in 1..Len(f.attempts) :
                    f.attempts[i].tempId = f.pendingActivities[i].tempId

\* C8 witness: a drain has called the remote store for operation 1, which
\* failed, and then for operation 2.
C8_Witness ==
    \E d \in Drainers :
        /\ drain[d].pc = "writeback"
        /\ Len(drain[d].attempts) = 2
        /\ drain[d].attempts[1] = [tempId |-> 1, ok |-> FALSE]
        /\ drain[d].attempts[2].tempId = 2

\* the temp ids of the attempts that ended ok / failed, in order
RECURSIVE IdsWhere(_, _)
IdsWhere(attempts, ok) ==
    IF attempts = <<>> THEN <<>>
    ELSE IF Head(attempts).ok = ok
         THEN <<Head(attempts).tempId>> \o IdsWhere(Tail(attempts), ok)
         ELSE IdsWhere(Tail(attempts), ok)

\* C9 (as claimed): a drain that issued remote calls returns success + errors
\* equal to the number of operations it attempted, errors equal to the number
\* that failed, and one error message per failed operation.
C9_AllCounted ==
    \A d \in Drainers :
        (drain[d].pc = "done" /\ drain[d].attempts # <<>>)
        => /\ drain[d].result.success + drain[d].result.errors = Len(drain[d].attempts)
           /\ drain[d].result.errors = Len(IdsWhere(drain[d].attempts, FALSE))
           /\ Len(drain[d].result.errorMessages) = drain[d].result.errors

\* the temp ids of the entries of list that are among ids, in order
RECURSIVE IdsAmong(_, _)
IdsAmong(list, ids) ==
    IF list = <<>> THEN <<>>
    ELSE IF Head(list).tempId \in ids
         THEN <<Head(list).tempId>> \o IdsAmong(Tail(list), ids)
         ELSE IdsAmong(Tail(list), ids)

\* C10 (as claimed): when a drain that issued remote calls returns, the
\* operations of its snapshot that the persisted queue holds are exactly those
\* whose remote call failed, in their original order, and none that succeeded.
C10_OnlyFailedRemain ==
    \A d \in Drainers :
        (drain[d].pc = "done" /\ drain[d].attempts # <<>>)
        => IdsAmong(ParseOrEmpty(pendingData),
                    { drain[d].attempts[i].tempId : i \in 1..Len(drain[d].attempts) })
           = IdsWhere(drain[d].attempts, FALSE)

\* C11 (as claimed): a call of addActivity / updateActivity whose operation was
\* not written remotely (the direct write failed with connectivity up, or
\* connectivity was down) ends with the operation in the persisted queue and
\* the status 'pending'.
C11_FailedWriteBuffered ==
    \A e \in Enqueuers :
        (ui[e].pc = "done" /\ ui[e].outcome \notin {"saved", "rejected"})
        => /\ ui[e].outcome = "queued"
           /\ ui[e].tempId \in QueueIds
           /\ StatusNow = "pending"

\* C12 (Scenario A, auto-sync): once an operation is enqueued with status
\* 'pending' and count 1, and connectivity turns online with nothing failing,
\* the listener's drain brings the system to status 'synced' with count 0
\* without any manual sync.
C12_AutoSync ==
    (StatusNow = "pending" /\ CountNow = 1) ~> (StatusNow = "synced" /\ CountNow = 0)

\* C12 witness: the listener's drain returns having synced the one queued
\* operation; the status is 'synced' and the queue is empty.
C12_Witness ==
    /\ drain["listener"].pc = "done" /\ drain["listener"].result.success = 1
    /\ remoteWritten = {1} /\ enqueued = {1}
    /\ StatusNow = "synced" /\ CountNow = 0

\* C13 (as claimed, durability across crashes): at the cold start after an
\* abrupt termination, every operation whose enqueue had returned and whose
\* remote write had not succeeded is still in the persisted queue, and the
\* queue is in enqueue order.
C13_CrashDurable ==
    [][boots' # boots
       => /\ \A t \in enqueued \ remoteWritten : t \in IdsOf(ParseOrEmpty(pendingData'))
          /\ Ascending(ParseOrEmpty(pendingData'))]_vars

\* C14 (enqueue failure is loud): a call of queueActivityForSync whose storage
\* read or write fails throws, with the persisted queue left as it was and its
\* entry not in it; a call returns a temp id only after its entry was written
\* to the persisted queue; and the caller (addActivity / updateActivity) shows
\* the operation as queued exactly when the call returned a temp id.
C14_EnqueueFailsLoudly ==
    [][\A e \in Enqueuers :
         /\ (enq[e].pc # "done" /\ enq'[e].pc = "done" /\ enq'[e].result = Thrown)
            => /\ pendingData' = pendingData
               /\ enq'[e].pendingActivity.tempId \notin IdsOf(ParseOrEmpty(pendingData'))
         /\ (enq[e].pc = "write" /\ enq'[e].pc = "setPending")
            => enq[e].pendingActivity.tempId \in IdsOf(ParseOrEmpty(pendingData'))
         /\ (enq[e].pc # "done" /\ enq'[e].pc = "done" /\ enq'[e].result # Thrown)
            => /\ enq[e].pc = "setPending"
               /\ enq'[e].result = enq[e].pendingActivity.tempId
         /\ (ui[e].pc = "offline" /\ ui'[e].pc = "done")
            => /\ ui'[e].outcome = "queued" <=> enq[e].result # Thrown
               /\ ui'[e].outcome = "queued"
                     => ui'[e].tempId = enq[e].result /\ ui'[e].tempId \in enqueued
               /\ ui'[e].outcome # "queued" => ui'[e].outcome = "thrown"]_vars

\* C14 witness: an offline addActivity whose queueActivityForSync threw has
\* ended with the error, and nothing was persisted.
C14_Witness ==
    /\ ui["addActivity"].pc = "done" /\ ui["addActivity"].outcome = "thrown"
    /\ ~ui["addActivity"].isConnected
    /\ ~pendingData.present /\ enqueued = {}

\* C15 (as claimed): a call of syncPendingActivities always returns a tally, and
\* when a remote write or any other step of the drain failed, the tally has
\* errors > 0 with a message for every failed remote write, the persisted status
\* is 'error', and the operations whose remote write failed are in the queue.
C15_FailuresReported ==
    \A d \in Drainers :
        LET f == drain[d]
            failed == IdsWhere(f.attempts, FALSE)
        IN (f.pc = "done" /\ f.isConnected /\ (failed # <<>> \/ f.result.errors > 0))
           => /\ f.result.errors > 0
              /\ Len(f.result.errorMessages) >= Len(failed)
              /\ StatusNow = "error"
              /\ \A i \in 1..Len(failed) : failed[i] \in QueueIds

\* C16 (as claimed, bounded retry): withRetry calls fn at least once and at most
\* maxAttempts times, stops at the first success, and when every attempt fails
\* throws the error of the last attempt; and createActivity / updateActivity
\* (what the drain counts as a failed entry) fail only when the remote write
\* used up its three attempts or hit an error that is not retried.
C16_BoundedRetry ==
    /\ probe.fn = "withRetry"
       => LET out == probe.out
              results == probe.results
          IN /\ out.attempts >= 1 /\ out.attempts <= probe.maxAttempts
             /\ \A i \in 1..(out.attempts - 1) : ~results[i].ok
             /\ out.ok = results[out.attempts].ok
             /\ ~out.ok => out.error = results[out.attempts].error
    /\ (probe.fn \in {"createActivity", "updateActivity"} /\ ~probe.out.ok)
       => LET written == withRetry(probe.write, 3)
          IN ~written.ok /\ (written.attempts = 3 \/ ~defaultShouldRetry(written.error))

\* the errors the claim calls non-retryable: authentication errors other than
\* the network one, and permission errors
NonRetryable(error) ==
    \/ StartsWithAuth(error.code) /\ error.code # "auth/network-request-failed"
    \/ error.code = "permission-denied"

\* C17 (as claimed, fail fast): under the default predicate an attempt that
\* fails with an authentication or permission error is the only attempt of
\* withRetry, whatever the words of the error's message.
C17_FailFast ==
    (/\ probe.fn = "withRetry"
     /\ ~probe.results[1].ok
     /\ NonRetryable(probe.results[1].error))
    => probe.out.attempts = 1

\* C18 (conflict resolution): handleSyncConflict returns the local copy exactly
\* when its updatedAt is strictly greater than the remote one's and the remote
\* copy otherwise (ties included); the result is one of the two inputs, field
\* for field, and is fixed by the inputs.
C18_NewerWins ==
    probe.fn = "handleSyncConflict"
    => LET localActivity == probe.localActivity
           remoteActivity == probe.remoteActivity
       IN /\ probe.out \in {localActivity, remoteActivity}
          /\ probe.out = localActivity
                <=> localActivity.updatedAt > remoteActivity.updatedAt
          /\ probe.out = remoteActivity
                <=> localActivity.updatedAt <= remoteActivity.updatedAt
          /\ probe.out = handleSyncConflict(localActivity, remoteActivity)

\* C18 witness: a tie between two copies that differ was resolved for the
\* remote copy.
C18_Witness ==
    /\ probe.fn = "handleSyncConflict"
    /\ probe.localActivity.updatedAt = probe.remoteActivity.updatedAt
    /\ probe.localActivity.emissionKg # probe.remoteActivity.emissionKg
    /\ probe.out = probe.remoteActivity

\* an entry has a target id exactly when it is an update
WellFormed(pending) == (pending.activityId # NoId) <=> (pending.operation = "update")

\* C19 (queue-entry invariant): every entry of the persisted queue has an
\* activityId exactly when its operation is 'update', and so has every entry a
\* call of queueActivityForSync is about to persist and every entry a drain
\* iterates over.
C19_IdIffUpdate ==
    /\ \A i \in 1..Len(ParseOrEmpty(pendingData)) :
          WellFormed(ParseOrEmpty(pendingData)[i])
    /\ \A e \in Enqueuers :
          \A i \in 1..Len(enq[e].pendingActivities) :
             WellFormed(enq[e].pendingActivities[i])
    /\ \A d \in Drainers :
          \A i \in 1..Len(drain[d].pendingActivities) :
             WellFormed(drain[d].pendingActivities[i])

\* C19 witness: the persisted queue holds a create without an id and an update
\* with one.
C19_Witness ==
    LET list == ParseOrEmpty(pendingData)
    IN \E i, j \in 1..Len(list) :
          /\ list[i].operation = "create" /\ list[i].activityId = NoId
          /\ list[j].operation = "update" /\ list[j].activityId # NoId

\* C20 (as claimed): checkConnectivity answers false whenever the device is
\* connected but the internet is not reachable, also when reachability is not
\* yet known to be true, and whenever the platform check throws; it answers
\* true only when the device is connected and the internet is reachable.
C20_UnknownIsOffline ==
    probe.fn = "checkConnectivity"
    => /\ (probe.state.isConnected = "true" /\ probe.state.isInternetReachable # "true")
          => ~probe.out
       /\ ~probe.fetchOk => ~probe.out
       /\ probe.out => /\ probe.state.isConnected = "true"
                       /\ probe.state.isInternetReachable = "true"

\* C20 (amended): checkConnectivity answers false whenever the platform
\* reports the internet unreachable (isInternetReachable false), whenever the
\* device is not reported connected, and whenever the platform check throws;
\* it answers true exactly when the check returns with the device connected
\* and reachability true or not yet known (null).
C20_UnknownIsOnline ==
    probe.fn = "checkConnectivity"
    => /\ probe.state.isInternetReachable = "false" => ~probe.out
       /\ probe.state.isConnected # "true" => ~probe.out
       /\ ~probe.fetchOk => ~probe.out
       /\ probe.out <=> /\ probe.fetchOk
                        /\ probe.state.isConnected = "true"
                        /\ probe.state.isInternetReachable \in {"true", "null"}

\* C20 witness: connected with reachability not yet known, and the answer is
\* true.
C20_Witness ==
    /\ probe.fn = "checkConnectivity"
    /\ probe.fetchOk
    /\ probe.state.isConnected = "true"
    /\ probe.state.isInternetReachable = "null"
    /\ probe.out

\* C21 (as claimed): an activity added while offline is in the in-memory list
\* as an unsynced record whose id is the temp id of its queue entry, for as long
\* as that entry is in the persisted queue (its drain has not succeeded),
\* whatever subscription updates or refreshes happen meanwhile.
C21_StandInKept ==
    (\A e \in Enqueuers : enq[e].pc # "done")
    => \A i \in 1..Len(ParseOrEmpty(pendingData)) :
          LET pending == ParseOrEmpty(pendingData)[i]
          IN (pending.operation = "create" /\ pending.tempId \in enqueued)
             => TempName(pending.tempId) \in ctx.activities

\* C22 (as claimed): a cold start leaves getSyncStatus reporting 'synced': in
\* the first state of the new process, before it has enqueued or drained
\* anything, the status read is 'synced'.
C22_ColdStartSynced ==
    [][boots' # boots => getSyncStatus(syncStatusData', TRUE) = "synced"]_vars

\* C23 (as claimed): when a manual sync completes, a drain that returned
\* errors > 0 is shown as a failure (no success message) with the context status
\* 'error', and the success message is raised only when the drain returned
\* errors = 0 having synced at least one pending operation.
C23_ManualFeedback ==
    [][(ctx.syncing /\ ~ctx'.syncing)
       => LET result == drain["manual"].result
          IN /\ result.errors > 0
                => ctx'.alert # "Success" /\ ctx'.syncStatus = "error"
             /\ ctx'.alert = "Success"
                => result.errors = 0 /\ result.success > 0]_vars

\* C24 (as claimed): the write of a successful queueActivityForSync leaves the
\* persisted queue as it was with exactly one new entry at its tail, and an
\* entry leaves the persisted queue only when the remote write a drain made
\* for it succeeded (clearPendingActivities has no caller in the program).
C24_AppendOnly ==
    [][/\ \A e \in Enqueuers :
            (enq[e].pc = "write" /\ enq'[e].pc = "setPending")
            => ParseOrEmpty(pendingData')
                 = Append(ParseOrEmpty(pendingData), enq[e].pendingActivity)
       /\ \A t \in IdsOf(ParseOrEmpty(pendingData)) \ IdsOf(ParseOrEmpty(pendingData')) :
            t \in remoteWritten']_vars

\* C25 (as claimed): in every reachable state, across restarts and overlapping
\* drains, the persisted status is 'syncing' exactly when some call of
\* syncPendingActivities that passed its connectivity check is in flight.
C25_SyncingIffInFlight ==
    Settled
    => (syncStatusData = "syncing"
        <=> \E d \in Drainers : drain[d].pc \notin {"idle", "done", "setSyncing"})

\* C26 (as claimed): every call of syncPendingActivities that starts draining
\* reaches its return, and when it does the persisted status is 'synced' or
\* 'error', not 'syncing'.
C26_DrainCompletes ==
    \A d \in Drainers :
        (drain[d].pc = "setSyncing")
        ~> (drain[d].pc = "done" /\ syncStatusData \in {"synced", "error"})

\* C27 (as claimed): under any interleaving of enqueues and drains, whenever
\* the status reads 'synced' the persisted queue is empty (read outside the
\* window in which an enqueue has written the queue and not yet the status).
C27_SyncedMeansEmpty ==
    (Settled /\ \A e \in Enqueuers : enq[e].pc # "setPending")
    => (StatusNow = "synced" => CountNow = 0)

\* C28 (as claimed): each queued 'create' is written to the remote store at
\* most once: no drain makes a successful remote write for an entry whose
\* document was already added by an earlier remote write.
C28_AtMostOnce ==
    [][\A d \in Drainers :
         (/\ drain[d].pc = "loop"
          /\ Len(drain'[d].attempts) = Len(drain[d].attempts) + 1
          /\ drain'[d].attempts[Len(drain'[d].attempts)].ok)
         => Current(drain[d]).tempId \notin remoteWritten]_vars

\* C29 (as claimed): overlapping calls of queueActivityForSync are both kept:
\* once the calls have returned, every operation for which a call returned a
\* temp id is in the persisted queue (no drain has run).
C29_BothKept ==
    (\A e \in Enqueuers : enq[e].pc = "idle")
    => enqueued \subseteq IdsOf(ParseOrEmpty(pendingData))

\* C30 (as claimed): every 'update' in the persisted queue is for the id of a
\* record of the remote store, never for the temp id of a local stand-in, so
\* that a drain can apply it.
C30_UpdateTargetsRemote ==
    \A i \in 1..Len(ParseOrEmpty(pendingData)) :
        LET pending == ParseOrEmpty(pendingData)[i]
        IN pending.operation = "update"
           => \A t \in TempIds : pending.activityId # TempName(t)

====
